---- MODULE Spec2Model ----
(***************************************************************************)
(* Interactive comments section: the in-memory comment tree held by        *)
(* CommentsApp (js/app.js), the localStorage gateway Storage               *)
(* (js/storage.js), the reply form of Components (js/components.js) and    *)
(* the id generator and content validation of Utils (js/utils.js).         *)
(*                                                                         *)
(* A comment is a record with the fields the JavaScript object has; an     *)
(* optional field (replyingTo, replies) is a field the record may lack.    *)
(* The user record keeps the username only: the avatar paths are copied    *)
(* along with it and never read by the logic.  Text is a sequence of       *)
(* one-character strings so that trimming and length are computed.         *)
(***************************************************************************)
EXTENDS Integers, Sequences, FiniteSets, TLC

VARIABLES
    data,            \* CommentsApp.data: {currentUser, comments}
    currentUser,     \* CommentsApp.currentUser
    stored,          \* localStorage item under Storage.STORAGE_KEY
    deleteTargetId,  \* CommentsApp.deleteTargetId
    replyForms,      \* open reply forms in the DOM: {parentId, replyingTo}
    editForms,       \* ids of the comments with an open edit form in the DOM
    storageOK,       \* whether localStorage.setItem currently succeeds
    now,             \* Date.now(), in ms
    phase,           \* "loading" until loadData has completed, then "ready"
    rendered,        \* the articles of the comment list in DOM order, each the
                     \* position in data.comments of the comment it was built from
    shown,           \* the two score displays of each article, by the position
                     \* (top-level, or top-level and reply) of its comment
    hidden,          \* ids of the comments whose content element has display none
    closing,         \* ids of the edit forms whose 300 ms close timer is pending
    requested,       \* history: the id of the last delete request, NullId after a
                     \* cancel
    generated,       \* history: every id Utils.generateId has returned
    steps,           \* history: handler runs and clock ticks so far
    event            \* history: the last handler that ran, its input and pre-state

vars == <<data, currentUser, stored, deleteTargetId, replyForms, editForms,
          storageOK, now, phase, rendered, shown, hidden, closing, requested,
          generated, steps, event>>

\* the forms that live inside the rendered comment list
forms == <<replyForms, editForms>>

\* the comment list itself: the order of its articles, their score displays
\* and content elements, and the pending close timers of its edit forms
page == <<rendered, shown, hidden, closing>>

----------------------------------------------------------------------------
(* Bounds of the model *)

\* Date.now() when the page is opened (any value above the seeded ids 1..4)
StartTime == 100
\* Math.floor(Math.random() * 1000) is drawn from 0..MaxRandom
MaxRandom == 1
\* a session is followed for this many handler runs and clock ticks
MaxSteps == 3
\* an id that no comment of the model carries, for events naming an absent id
AbsentId == 9

----------------------------------------------------------------------------
(* Program constants *)

NullId == 0
RandomRange == 1000
MinCommentLength == 3
MaxCommentLength == 1000
\* minutes in the units Storage.getInitialData and convertToISODate subtract
MinutesPerHour == 60
MinutesPerDay == 1440
MinutesPerWeek == 10080
MinutesPerMonth == 43200

Min(S) == CHOOSE x \in S : \A y \in S : x <= y
Max(a, b) == IF a >= b THEN a ELSE b

----------------------------------------------------------------------------
(* Values *)

\* JavaScript null / undefined
Null == [null |-> TRUE]
IsNull(v) == "null" \in DOMAIN v

\* new Date(t - minutes * 60 * 1000).toISOString(): the instant that lies
\* the given number of minutes before clock value t (t in ms)
ISODate(t, minutes) == [base |-> t, minutes |-> minutes]

User(name) == [username |-> name]

\* one-character strings of the texts the model uses
Chars(name) ==
    CASE name = "juliusomo" -> <<"j", "u", "l">>
      [] name = "amyrobson" -> <<"a", "m", "y">>
      [] name = "maxblagun" -> <<"m", "a", "x">>
      [] name = "ramsesmiron" -> <<"r", "a", "m">>
      [] OTHER -> <<"?">>

IsSpace(ch) == ch = " "

RECURSIVE TrimLeft(_)
TrimLeft(s) ==
    IF s # <<>> /\ IsSpace(Head(s)) THEN TrimLeft(Tail(s)) ELSE s

RECURSIVE TrimRight(_)
TrimRight(s) ==
    IF s # <<>> /\ IsSpace(s[Len(s)]) THEN TrimRight(SubSeq(s, 1, Len(s) - 1)) ELSE s

\* String.prototype.trim
Trim(s) == TrimRight(TrimLeft(s))

\* String.prototype.startsWith
StartsWith(s, prefix) ==
    Len(s) >= Len(prefix) /\ SubSeq(s, 1, Len(prefix)) = prefix

\* Utils.validateComment(content).isValid
validateComment(content) ==
    LET trimmed == Trim(content) IN
    /\ trimmed # <<>>
    /\ Len(trimmed) >= MinCommentLength
    /\ Len(trimmed) <= MaxCommentLength

\* Utils.generateId(): Date.now() + Math.floor(Math.random() * 1000)
generateId(t, r) == t + r

RandomChoices == {r \in 0..MaxRandom : r < RandomRange}

----------------------------------------------------------------------------
(* The comment tree *)

HasReplies(c) == "replies" \in DOMAIN c
RepliesOf(c) == IF HasReplies(c) THEN c.replies ELSE <<>>

\* Storage.getInitialData(): the hardcoded fallback snapshot
getInitialData(t) ==
    [currentUser |-> User("juliusomo"),
     comments |-> <<
        [id |-> 1, content |-> <<"I", "m", "p">>,
         createdAt |-> ISODate(t, 30 * MinutesPerDay), score |-> 12,
         user |-> User("amyrobson"), replies |-> <<>>],
        [id |-> 2, content |-> <<"W", "o", "a", "h">>,
         createdAt |-> ISODate(t, 14 * MinutesPerDay), score |-> 5,
         user |-> User("maxblagun"),
         replies |-> <<
            [id |-> 3, content |-> <<"I", "f">>,
             createdAt |-> ISODate(t, 7 * MinutesPerDay), score |-> 4,
             replyingTo |-> "maxblagun", user |-> User("ramsesmiron")],
            [id |-> 4, content |-> <<"I", "c">>,
             createdAt |-> ISODate(t, 2 * MinutesPerDay), score |-> 2,
             replyingTo |-> "ramsesmiron", user |-> User("juliusomo")]
         >>]
     >>]

\* mutant: a lookup that matches nothing falls back to the first comment
findCommentOrFirst(comments, id) ==
    LET hits == {i \in 1..Len(comments) :
                    \/ comments[i].id = id
                    \/ \E j \in 1..Len(RepliesOf(comments[i])) :
                          RepliesOf(comments[i])[j].id = id}
    IN  IF hits = {} THEN (IF comments = <<>> THEN <<>> ELSE <<1>>)
        ELSE LET i == Min(hits) IN
             IF comments[i].id = id THEN <<i>>
             ELSE <<i, Min({j \in 1..Len(comments[i].replies) :
                               comments[i].replies[j].id = id})>>

\* CommentsApp.findComment: the position of the first match, scanning each
\* top-level comment and then its replies; <<>> stands for null
findComment(comments, id) ==
    LET hits == {i \in 1..Len(comments) :
                    \/ comments[i].id = id
                    \/ \E j \in 1..Len(RepliesOf(comments[i])) :
                          RepliesOf(comments[i])[j].id = id}
    IN  IF hits = {} THEN <<>>
        ELSE LET i == Min(hits) IN
             IF comments[i].id = id THEN <<i>>
             ELSE <<i, Min({j \in 1..Len(comments[i].replies) :
                               comments[i].replies[j].id = id})>>

\* the object findComment returned
CommentAt(comments, p) ==
    IF Len(p) = 1 THEN comments[p[1]] ELSE comments[p[1]].replies[p[2]]

\* the tree after the object findComment returned was mutated into c
SetCommentAt(comments, p, c) ==
    IF Len(p) = 1 THEN [comments EXCEPT ![p[1]] = c]
    ELSE [comments EXCEPT ![p[1]].replies[p[2]] = c]

RemoveAt(s, i) == SubSeq(s, 1, i - 1) \o SubSeq(s, i + 1, Len(s))

\* CommentsApp.removeComment
removeComment(comments, id) ==
    LET tops == {i \in 1..Len(comments) : comments[i].id = id}
        owners == {i \in 1..Len(comments) :
                      /\ HasReplies(comments[i])
                      /\ \E j \in 1..Len(comments[i].replies) :
                            comments[i].replies[j].id = id}
    IN  IF tops # {} THEN RemoveAt(comments, Min(tops))
        ELSE IF owners # {}
             THEN LET i == Min(owners)
                      j == Min({k \in 1..Len(comments[i].replies) :
                                   comments[i].replies[k].id = id})
                  IN  [comments EXCEPT ![i].replies = RemoveAt(@, j)]
             ELSE comments

\* every id of the tree, at any depth
RECURSIVE AllIds(_)
AllIds(comments) ==
    UNION {{comments[i].id} \cup AllIds(RepliesOf(comments[i])) :
              i \in 1..Len(comments)}

\* number of comments of the tree, at any depth
RECURSIVE DeepSize(_)
DeepSize(comments) ==
    IF comments = <<>> THEN 0
    ELSE 1 + DeepSize(RepliesOf(Head(comments))) + DeepSize(Tail(comments))

\* app.js line 175: [...comments].sort((a, b) => b.score - a.score), as the
\* positions of the comments in the order the sort puts them; the sort is
\* stable, so equal scores keep their order
sortedComments(comments) ==
    LET before(j, i) == \/ comments[j].score > comments[i].score
                        \/ comments[j].score = comments[i].score /\ j < i
        rank(i) == 1 + Cardinality({j \in 1..Len(comments) : before(j, i)})
    IN  [k \in 1..Len(comments) |-> CHOOSE i \in 1..Len(comments) : rank(i) = k]

\* components.js getCommentHTML, lines 49 and 82: each article shows the
\* score twice, in the desktop voting widget and in the mobile footer;
\* renderComment builds an article for each top-level comment and, through
\* createRepliesContainer, for each of its replies
renderScores(comments) ==
    LET paths == {<<i>> : i \in 1..Len(comments)}
                 \cup UNION {{<<i, j>> : j \in 1..Len(RepliesOf(comments[i]))} :
                                i \in 1..Len(comments)}
    IN  [p \in paths |->
            LET score == IF Len(p) = 1 THEN comments[p[1]].score
                         ELSE comments[p[1]].replies[p[2]].score
            IN  [desktop |-> score, mobile |-> score]]

\* the articles in document order: each top-level article in the order it
\* was rendered, followed by the articles of its replies
RECURSIVE articlePaths(_, _)
articlePaths(comments, order) ==
    IF order = <<>> THEN <<>>
    ELSE LET i == Head(order) IN
         <<(<<i>>)>> \o [j \in 1..Len(RepliesOf(comments[i])) |-> <<i, j>>]
         \o articlePaths(comments, Tail(order))

\* document.querySelector('[data-comment-id="id"]'): the first article in
\* document order that carries the id, a top-level article coming before the
\* articles of its replies and those before the next top-level article;
\* <<>> when there is none
firstArticle(comments, order, id) ==
    LET inReplies(i) == {j \in 1..Len(RepliesOf(comments[i])) :
                            RepliesOf(comments[i])[j].id = id}
        hits == {k \in 1..Len(order) :
                    comments[order[k]].id = id \/ inReplies(order[k]) # {}}
    IN  IF hits = {} THEN <<>>
        ELSE LET i == order[Min(hits)] IN
             IF comments[i].id = id THEN <<i>> ELSE <<i, Min(inReplies(i))>>

\* the object with its replies property set (created when it was missing)
WithReplies(c, replies) ==
    [f \in DOMAIN c \cup {"replies"} |-> IF f = "replies" THEN replies ELSE c[f]]

\* mutant: the downvote is not held at zero
newScoreNoFloor(score, action) ==
    IF action = "upvote" THEN score + 1
    ELSE IF action = "downvote" THEN score - 1
    ELSE score

\* mutant: the downvote is held at one instead of zero
newScoreFloorOne(score, action) ==
    IF action = "upvote" THEN score + 1
    ELSE IF action = "downvote" THEN Max(1, score - 1)
    ELSE score

\* mutant: the downvote takes two points
newScoreDownTwo(score, action) ==
    IF action = "upvote" THEN score + 1
    ELSE IF action = "downvote" THEN Max(0, score - 2)
    ELSE score

\* app.js handleVote, lines 265-269: the new score
newScore(score, action) ==
    IF action = "upvote" THEN score + 1
    ELSE IF action = "downvote" THEN Max(0, score - 1)
    ELSE score

\* comment.score of the object findComment returns
ScoreAt(comments, id) == CommentAt(comments, findComment(comments, id)).score

\* mutant: a vote also stamps the comment with a new creation time
handleVoteStamped(comments, commentId, action) ==
    LET p == findComment(comments, commentId) IN
    IF p = <<>> THEN comments
    ELSE LET c == CommentAt(comments, p) IN
         SetCommentAt(comments, p, [c EXCEPT !.score = newScore(c.score, action),
                                             !.createdAt = ISODate(0, 0)])

\* app.js handleVote: the tree after the vote (unchanged when not found)
handleVote(comments, commentId, action) ==
    LET p == findComment(comments, commentId) IN
    IF p = <<>> THEN comments
    ELSE LET c == CommentAt(comments, p) IN
         SetCommentAt(comments, p, [c EXCEPT !.score = newScore(c.score, action)])

\* mutant: the new comment is put in front of the others
handleAddCommentFirst(comments, content, id, t, user) ==
    <<[id |-> id, content |-> content, createdAt |-> ISODate(t, 0),
       score |-> 0, user |-> User(user.username), replies |-> <<>>]>> \o comments

\* app.js handleAddComment, lines 221-234: the tree with the new comment
handleAddComment(comments, content, id, t, user) ==
    Append(comments,
           [id |-> id, content |-> content, createdAt |-> ISODate(t, 0),
            score |-> 0, user |-> User(user.username), replies |-> <<>>])

\* mutant: the reply is put in front of the parent's replies
handleCreateReplyFirst(comments, parentId, replyingTo, content, id, t, user) ==
    LET p == findComment(comments, parentId) IN
    IF p = <<>> THEN comments
    ELSE LET parent == CommentAt(comments, p)
             newReply == [id |-> id, content |-> content,
                          createdAt |-> ISODate(t, 0), score |-> 0,
                          replyingTo |-> replyingTo,
                          user |-> User(user.username)]
         IN  SetCommentAt(comments, p,
                          WithReplies(parent, <<newReply>> \o RepliesOf(parent)))

\* app.js handleCreateReply, lines 296-317: the tree with the new reply
\* pushed onto the replies of whatever findComment(parentId) returned
handleCreateReply(comments, parentId, replyingTo, content, id, t, user) ==
    LET p == findComment(comments, parentId) IN
    IF p = <<>> THEN comments
    ELSE LET parent == CommentAt(comments, p)
             newReply == [id |-> id, content |-> content,
                          createdAt |-> ISODate(t, 0), score |-> 0,
                          replyingTo |-> replyingTo,
                          user |-> User(user.username)]
         IN  SetCommentAt(comments, p,
                          WithReplies(parent, Append(RepliesOf(parent), newReply)))

\* mutant: an edit also takes the comment's score back to 0
handleUpdateCommentResetScore(comments, commentId, content) ==
    LET p == findComment(comments, commentId) IN
    IF p = <<>> THEN comments
    ELSE SetCommentAt(comments, p,
                      [CommentAt(comments, p) EXCEPT !.content = content, !.score = 0])

\* app.js handleUpdateComment, lines 340-346
handleUpdateComment(comments, commentId, content) ==
    LET p == findComment(comments, commentId) IN
    IF p = <<>> THEN comments
    ELSE SetCommentAt(comments, p, [CommentAt(comments, p) EXCEPT !.content = content])

\* mutant: a confirm click with no delete target removes the first comment
handleDeleteConfirmNoTarget(comments, target) ==
    IF target = NullId THEN (IF comments = <<>> THEN comments ELSE Tail(comments))
    ELSE IF findComment(comments, target) = <<>> THEN comments
    ELSE removeComment(comments, target)

\* app.js handleDeleteConfirm, lines 404-410: the tree after the confirm click
handleDeleteConfirm(comments, target) ==
    IF target = NullId THEN comments
    ELSE IF findComment(comments, target) = <<>> THEN comments
    ELSE removeComment(comments, target)

----------------------------------------------------------------------------
(* Storage *)

\* localStorage.getItem returned null
NoItem == [text |-> "none"]
\* an item that JSON.parse rejects
Garbage == [text |-> "garbage"]
\* JSON.stringify(value): a text that JSON.parse turns back into value
Stringify(value) == [text |-> "json", value |-> value]
CanParse(s) == s.text = "json"
Parse(s) == s.value

\* mutant: nothing is ever written
saveDataNever(s, d, ok) == s

\* mutant: the item is written whatever validation and setItem say
saveDataAlways(s, d, ok) == Stringify(d)

\* mutant: an empty comments array is refused
validateDataNonEmpty(d) ==
    /\ ~IsNull(d)
    /\ "currentUser" \in DOMAIN d
    /\ ~IsNull(d.currentUser)
    /\ "username" \in DOMAIN d.currentUser
    /\ d.currentUser.username # ""
    /\ "comments" \in DOMAIN d
    /\ d.comments # <<>>

\* mutant: the username of the user object is not looked at
validateDataNoUsername(d) ==
    /\ ~IsNull(d)
    /\ "currentUser" \in DOMAIN d
    /\ ~IsNull(d.currentUser)
    /\ "comments" \in DOMAIN d

\* Storage.validateData; Array.isArray(data.comments) is the presence of the
\* comments field, which the model gives a sequence or leaves out
validateData(d) ==
    /\ ~IsNull(d)
    /\ "currentUser" \in DOMAIN d
    /\ ~IsNull(d.currentUser)
    /\ "username" \in DOMAIN d.currentUser
    /\ d.currentUser.username # ""
    /\ "comments" \in DOMAIN d

\* Storage.getData
getData(s, t) ==
    IF s.text # "none" /\ CanParse(s) /\ validateData(Parse(s)) THEN Parse(s)
    ELSE getInitialData(t)

\* Storage.saveData: its return value
saveDataResult(d, ok) == validateData(d) /\ ok

\* mutant: the comments are written without the user
saveDataCommentsOnly(s, d, ok) ==
    IF validateData(d) /\ ok THEN Stringify([comments |-> d.comments]) ELSE s

\* Storage.saveData: the item after the call; ok is whether setItem succeeds
saveData(s, d, ok) == IF validateData(d) /\ ok THEN Stringify(d) ELSE s

\* Storage.exportData
exportData(s, t) == Stringify(getData(s, t))

\* Storage.importData: its return value
importDataResult(file) == CanParse(file) /\ validateData(Parse(file))

\* Storage.importData: the item after the call
importData(s, file, ok) ==
    IF importDataResult(file) THEN saveData(s, Parse(file), ok) ELSE s

\* this.data.currentUser, undefined when the property is missing
CurrentUserOf(d) ==
    IF ~IsNull(d) /\ "currentUser" \in DOMAIN d THEN d.currentUser ELSE Null

----------------------------------------------------------------------------
(* Loading *)

\* a relative-time phrase of the seed document, such as "2 weeks ago"
Relative(n, unit) == [n |-> n, unit |-> unit]

\* mutant: a month is taken as 31 days
convertToISODateLongMonth(timeString, t) ==
    IF "unit" \notin DOMAIN timeString THEN ISODate(t, 0)
    ELSE IF timeString.unit = "month" THEN ISODate(t, timeString.n * 31 * MinutesPerDay)
    ELSE IF timeString.unit = "week" THEN ISODate(t, timeString.n * MinutesPerWeek)
    ELSE IF timeString.unit = "day" THEN ISODate(t, timeString.n * MinutesPerDay)
    ELSE IF timeString.unit = "hour" THEN ISODate(t, timeString.n * MinutesPerHour)
    ELSE IF timeString.unit = "minute" THEN ISODate(t, timeString.n)
    ELSE ISODate(t, 0)

\* Storage.convertToISODate: parseInt(timeString) units before now for a
\* phrase naming a unit, now for any other string (an ISO date names none)
convertToISODate(timeString, t) ==
    IF "unit" \notin DOMAIN timeString THEN ISODate(t, 0)
    ELSE IF timeString.unit = "month" THEN ISODate(t, timeString.n * MinutesPerMonth)
    ELSE IF timeString.unit = "week" THEN ISODate(t, timeString.n * MinutesPerWeek)
    ELSE IF timeString.unit = "day" THEN ISODate(t, timeString.n * MinutesPerDay)
    ELSE IF timeString.unit = "hour" THEN ISODate(t, timeString.n * MinutesPerHour)
    ELSE IF timeString.unit = "minute" THEN ISODate(t, timeString.n)
    ELSE ISODate(t, 0)

\* storage.js lines 155-161
RECURSIVE processComments(_, _)
processComments(comments, t) ==
    [i \in 1..Len(comments) |->
        LET comment == comments[i] IN
        WithReplies([comment EXCEPT !.createdAt = convertToISODate(@, t)],
                    IF HasReplies(comment) THEN processComments(comment.replies, t)
                    ELSE <<>>)]

\* outcomes of fetch('./data.json') and response.json()
FetchFailed == [kind |-> "networkError"]
NotOk == [kind |-> "notOk"]
Unparsable == [kind |-> "unparsable"]
SeedJson(doc) == [kind |-> "json", value |-> doc]

\* Storage.loadInitialData; reading .comments of null and mapping an
\* undefined comments throw inside the try block
loadInitialData(seed, t) ==
    IF seed.kind # "json" THEN getInitialData(t)
    ELSE LET doc == seed.value IN
         IF IsNull(doc) \/ "comments" \notin DOMAIN doc THEN getInitialData(t)
         ELSE [doc EXCEPT !.comments = processComments(@, t)]

\* CommentsApp.loadData: this.data and the stored item after it
loadData(s, seed, t, ok) ==
    LET d == getData(s, t) IN
    IF IsNull(d) \/ Len(d.comments) = 0
    THEN LET loaded == loadInitialData(seed, t) IN
         [data |-> loaded, stored |-> saveData(s, loaded, ok)]
    ELSE [data |-> d, stored |-> s]

----------------------------------------------------------------------------
(* Inputs *)

Votes == {"upvote", "downvote"}

\* what the user may have typed into the new-comment textarea
AddTexts == { <<>>, <<"h", "i">>, <<" ", "n", "e", "w", " ">> }
\* the content of an updateComment event
EditContent == <<"e", "d", "i", "t">>
\* the content of a createReply event
ReplyContent == <<"r", "e", "p">>

\* ids an event may name: those of the tree and one absent from it (the
\* tree is not searched where no handler can run: while loading, and once
\* the session has reached its last step)
EventIds ==
    IF phase = "ready" /\ steps < MaxSteps
    THEN AllIds(data.comments) \cup {AbsentId}
    ELSE {AbsentId}

\* snapshots a file chosen for import may hold
NoUserDoc == [comments |-> <<>>]
NoUsernameDoc == [currentUser |-> [image |-> "png"], comments |-> <<>>]
EmptyUsernameDoc == [currentUser |-> User(""), comments |-> <<>>]
NoCommentsDoc == [currentUser |-> User("juliusomo")]
OtherDoc ==
    [currentUser |-> User("maxblagun"),
     comments |-> <<
        [id |-> 7, content |-> <<"o", "l", "d">>, createdAt |-> ISODate(StartTime, 0),
         score |-> 1, user |-> User("amyrobson"), replies |-> <<>>]
     >>]

InvalidFiles ==
    {Garbage, Stringify(Null), Stringify(NoUserDoc), Stringify(NoUsernameDoc),
     Stringify(EmptyUsernameDoc), Stringify(NoCommentsDoc)}

ImportFiles == InvalidFiles \cup {Stringify(OtherDoc)}

----------------------------------------------------------------------------
(* Initial state: the page was opened with nothing stored, so loadData took
   the hardcoded default snapshot *)

Init ==
    /\ now = StartTime
    /\ storageOK \in BOOLEAN
    /\ LET l == loadData(NoItem, FetchFailed, StartTime, storageOK) IN
       /\ data = l.data
       /\ stored = l.stored
       /\ currentUser = CurrentUserOf(l.data)
    /\ rendered = sortedComments(data.comments)
    /\ shown = renderScores(data.comments)
    /\ hidden = {}
    /\ closing = {}
    /\ requested = NullId
    /\ deleteTargetId = NullId
    /\ replyForms = {}
    /\ editForms = {}
    /\ phase = "ready"
    /\ generated = {}
    /\ steps = 0
    /\ event = [op |-> "init"]

\* emptying the comment list removes every form inside it, and the content
\* elements that were hidden with it; a close timer that fires later finds
\* its form outside the document
ClearForms ==
    /\ replyForms' = {}
    /\ editForms' = {}
    /\ hidden' = {}
    /\ closing' = {}

\* CommentsApp.renderComments: the list is emptied and rebuilt from the tree
\* as it is after the handler's mutation, one article per top-level comment
\* and, inside it, one per reply
renderComments ==
    /\ ClearForms
    /\ rendered' = sortedComments(data'.comments)
    /\ shown' = renderScores(data'.comments)

\* one more handler run or clock tick of the session
Step ==
    /\ phase = "ready"
    /\ steps < MaxSteps
    /\ steps' = steps + 1

----------------------------------------------------------------------------
(* Handlers of CommentsApp *)

\* submit of the add-comment form: handleAddComment
AddComment(text, r) ==
    LET content == Trim(text)
        created == validateComment(content) /\ ~IsNull(currentUser)
        id == generateId(now, r)
    IN  /\ Step
        /\ IF created
           THEN /\ data' = [data EXCEPT !.comments =
                               handleAddComment(@, content, id, now, currentUser)]
                /\ renderComments
                /\ stored' = saveData(stored, data', storageOK)
                /\ generated' = generated \cup {id}
                /\ event' = [op |-> "add", created |-> TRUE, id |-> id,
                             fresh |-> id \notin generated \cup AllIds(data.comments),
                             text |-> text, saved |-> saveDataResult(data', storageOK),
                             pre |-> data, preUser |-> currentUser]
           ELSE /\ UNCHANGED <<data, forms, page, stored, generated>>
                /\ event' = [op |-> "add", created |-> FALSE, pre |-> data]
        /\ UNCHANGED <<currentUser, deleteTargetId, storageOK, now, phase,
                   requested>>

\* history: the handler run before this one, without its own history
PriorEvent ==
    IF event.op = "vote"
    THEN [op |-> "vote", id |-> event.id, action |-> event.action,
          found |-> event.found, pre |-> event.pre]
    ELSE IF event.op = "autosave"
    THEN [op |-> "autosave", saved |-> event.saved, pre |-> event.pre]
    ELSE IF event.op = "hideDeleteModal"
    THEN [op |-> "hideDeleteModal", how |-> event.how, cancelled |-> event.cancelled]
    ELSE [op |-> event.op]

\* app.js handleVote, lines 272-276: querySelector takes the first
\* .voting__score inside the first article with the id, which is the one of
\* the desktop widget, and writes the new score into it
voteScoreElement(displays, comments, order, commentId, found) ==
    LET article == firstArticle(comments, order, commentId) IN
    IF found /\ article # <<>> /\ article \in DOMAIN displays
    THEN [displays EXCEPT ![article].desktop = ScoreAt(comments, commentId)]
    ELSE displays

\* commentVote event: handleVote
CommentVote(commentId, action) ==
    LET found == findComment(data.comments, commentId) # <<>> IN
    /\ Step
    /\ data' = [data EXCEPT !.comments = handleVote(@, commentId, action)]
    /\ stored' = IF found THEN saveData(stored, data', storageOK) ELSE stored
    /\ shown' = voteScoreElement(shown, data'.comments, rendered, commentId, found)
    /\ event' = [op |-> "vote", id |-> commentId, action |-> action,
                 found |-> found, pre |-> data, prior |-> PriorEvent]
    /\ UNCHANGED <<currentUser, deleteTargetId, forms, rendered, hidden, closing,
                   storageOK, now, phase, generated, requested>>

\* createReply event: handleCreateReply
CreateReply(parentId, replyingTo, content, r) ==
    LET created == findComment(data.comments, parentId) # <<>> /\ ~IsNull(currentUser)
        id == generateId(now, r)
    IN  /\ Step
        /\ IF created
           THEN /\ data' = [data EXCEPT !.comments =
                               handleCreateReply(@, parentId, replyingTo, content,
                                                 id, now, currentUser)]
                /\ renderComments
                /\ stored' = saveData(stored, data', storageOK)
                /\ generated' = generated \cup {id}
                /\ event' = [op |-> "reply", created |-> TRUE, id |-> id,
                             parentId |-> parentId, replyingTo |-> replyingTo,
                             fresh |-> id \notin generated \cup AllIds(data.comments),
                             pre |-> data]
           ELSE /\ UNCHANGED <<data, forms, page, stored, generated>>
                /\ event' = [op |-> "reply", created |-> FALSE, parentId |-> parentId,
                             pre |-> data]
        /\ UNCHANGED <<currentUser, deleteTargetId, storageOK, now, phase,
                   requested>>

\* updateComment event: handleUpdateComment
UpdateComment(commentId, content) ==
    LET found == findComment(data.comments, commentId) # <<>> IN
    /\ Step
    /\ data' = [data EXCEPT !.comments = handleUpdateComment(@, commentId, content)]
    /\ stored' = IF found THEN saveData(stored, data', storageOK) ELSE stored
    /\ event' = [op |-> "update", id |-> commentId, found |-> found,
                 content |-> content, pre |-> data]
    /\ UNCHANGED <<currentUser, deleteTargetId, forms, page, storageOK,
                   now, phase, generated, requested>>

\* showDeleteModal event: CommentsApp.showDeleteModal
ShowDeleteModal(commentId) ==
    /\ Step
    /\ deleteTargetId' = commentId
    /\ requested' = commentId
    /\ event' = [op |-> "showDeleteModal", id |-> commentId]
    /\ UNCHANGED <<data, currentUser, stored, forms, page, storageOK,
                   now, phase, generated>>

\* the three ways to dismiss the delete modal (app.js lines 112-132)
Dismissals == {"cancelButton", "overlayClick", "escapeKey"}

\* cancel button, overlay click or Escape: CommentsApp.hideDeleteModal.  The
\* Escape listener runs it unless the modal's display is 'none', which only
\* hideDeleteModal sets, together with deleteTargetId = null
HideDeleteModal(how) ==
    /\ Step
    /\ deleteTargetId' = NullId
    /\ requested' = NullId
    /\ event' = [op |-> "hideDeleteModal", how |-> how, cancelled |-> requested,
                 pre |-> data]
    /\ UNCHANGED <<data, currentUser, stored, forms, page, storageOK,
                   now, phase, generated>>

\* click on the confirm button: handleDeleteConfirm
DeleteConfirm ==
    LET removed == /\ deleteTargetId # NullId
                   /\ findComment(data.comments, deleteTargetId) # <<>>
    IN  /\ Step
        /\ data' = [data EXCEPT !.comments = handleDeleteConfirm(@, deleteTargetId)]
        /\ IF removed
           THEN /\ renderComments
                /\ deleteTargetId' = NullId
                /\ stored' = saveData(stored, data', storageOK)
           ELSE UNCHANGED <<forms, page, deleteTargetId, stored>>
        /\ event' = [op |-> "delete", id |-> deleteTargetId, removed |-> removed,
                     pre |-> data, prior |-> PriorEvent]
        /\ UNCHANGED <<currentUser, storageOK, now, phase, generated, requested>>

\* CommentsApp.exportData: the downloaded file
ExportData ==
    /\ Step
    /\ event' = [op |-> "export", file |-> exportData(stored, now), pre |-> data]
    /\ UNCHANGED <<data, currentUser, stored, deleteTargetId, forms,
                   page, storageOK, now, phase, generated, requested>>

\* CommentsApp.importData(file)
ImportData(file) ==
    LET accepted == importDataResult(file) IN
    /\ Step
    /\ stored' = importData(stored, file, storageOK)
    /\ IF accepted
       THEN /\ data' = getData(stored', now)
            /\ currentUser' = CurrentUserOf(data')
            /\ renderComments
       ELSE UNCHANGED <<data, currentUser, forms, page>>
    /\ event' = [op |-> "import", accepted |-> accepted, file |-> file,
                 roundTrip |-> (event.op = "export" /\ file = event.file),
                 pre |-> data, preUser |-> currentUser, preStored |-> stored]
    /\ UNCHANGED <<deleteTargetId, storageOK, now, phase, generated,
                   requested>>

\* the file of the export that was just made, if any
ExportedFile == IF event.op = "export" THEN {event.file} ELSE {}

\* CommentsApp.resetData, the confirm() dialog accepted
ResetData ==
    /\ Step
    /\ stored' = NoItem
    /\ data' = getInitialData(now)
    /\ currentUser' = CurrentUserOf(data')
    /\ renderComments
    /\ event' = [op |-> "reset"]
    /\ UNCHANGED <<deleteTargetId, storageOK, now, phase, generated,
                   requested>>

\* the 30 s interval and beforeunload: CommentsApp.saveData
AutoSave ==
    /\ Step
    /\ stored' = saveData(stored, data, storageOK)
    /\ event' = [op |-> "autosave", saved |-> saveDataResult(data, storageOK),
                 pre |-> data, preUser |-> currentUser, preStored |-> stored]
    /\ UNCHANGED <<data, currentUser, deleteTargetId, forms, page,
                   storageOK, now, phase, generated, requested>>

\* the blob store starts or stops rejecting writes (quota, private mode)
QuotaChange ==
    /\ Step
    /\ storageOK' = ~storageOK
    /\ event' = [op |-> "quota"]
    /\ UNCHANGED <<data, currentUser, stored, deleteTargetId, forms,
                   page, now, phase, generated, requested>>

\* the clock advances by one millisecond
Tick ==
    /\ Step
    /\ now' = now + 1
    /\ UNCHANGED <<data, currentUser, stored, deleteTargetId, forms,
                   page, storageOK, phase, generated, event, requested>>

Next ==
    \/ \E text \in AddTexts, r \in RandomChoices : AddComment(text, r)
    \/ \E id \in EventIds, action \in Votes : CommentVote(id, action)
    \/ \E id \in EventIds, r \in RandomChoices :
          CreateReply(id, "amyrobson", ReplyContent, r)
    \/ \E id \in EventIds : UpdateComment(id, EditContent)
    \/ \E id \in EventIds : ShowDeleteModal(id)
    \/ \E how \in Dismissals : HideDeleteModal(how)
    \/ DeleteConfirm
    \/ ExportData
    \/ \E file \in ImportFiles \cup ExportedFile : ImportData(file)
    \/ ResetData
    \/ AutoSave
    \/ QuotaChange
    \/ Tick

Spec == Init /\ [][Next]_vars

----------------------------------------------------------------------------
(* The rendered comment list and its buttons (js/components.js) *)

\* the comments renderComments shows: each top-level comment and, through
\* createRepliesContainer, each of its replies; createComment reads
\* currentUser.username, so nothing is shown while currentUser is undefined
Displayed ==
    IF IsNull(currentUser) THEN {}
    ELSE UNION {
        {[id |-> data.comments[i].id, username |-> data.comments[i].user.username,
          top |-> TRUE, owner |-> data.comments[i].id]}
        \cup {[id |-> RepliesOf(data.comments[i])[j].id,
               username |-> RepliesOf(data.comments[i])[j].user.username,
               top |-> FALSE, owner |-> data.comments[i].id] :
                 j \in 1..Len(RepliesOf(data.comments[i]))} :
        i \in 1..Len(data.comments)}

\* Components.createComment: isCurrentUser
isCurrentUser(c) == c.username = currentUser.username

\* the text createReplyForm puts into the textarea: "@username "
Mention(replyingTo) == <<"@">> \o Chars(replyingTo) \o <<" ">>

\* what the user may have typed after the mention, or into an edit form
ReplyTexts == { <<>>, <<"r", "e", "p">> }
EditTexts == { <<>>, EditContent }

\* components.js handleReplySubmit, lines 440-448: the content submitted
replyContent(value, replyingTo) ==
    LET content == Trim(value)
        atMention == Mention(replyingTo)
    IN  IF StartsWith(content, atMention)
        THEN Trim(SubSeq(content, Len(atMention) + 1, Len(content)))
        ELSE content

\* the reply forms commentElement.querySelector('.comment-form--reply') can
\* find inside the element of c: its own, and for a top-level comment those
\* of its replies, whose elements are its children
FormsInside(c) ==
    {f \in replyForms :
        \/ f.parentId = c.id
        \/ c.top /\ \E d \in Displayed : d.owner = c.id /\ d.id = f.parentId}

\* click on a vote button: Components.handleVoting
ClickVote(c, action) == CommentVote(c.id, action)

\* click on Reply: Components.showReplyForm
ClickReply(c) ==
    /\ Step
    /\ ~isCurrentUser(c)
    /\ IF FormsInside(c) # {}
       THEN \E f \in FormsInside(c) : replyForms' = replyForms \ {f}
       ELSE replyForms' = replyForms \cup
                             {[parentId |-> c.id, replyingTo |-> c.username]}
    /\ event' = [op |-> "showReplyForm", id |-> c.id]
    /\ UNCHANGED <<data, currentUser, stored, deleteTargetId, editForms,
                   page, storageOK, now, phase, generated, requested>>

\* submit of a reply form: Components.handleReplySubmit, which dispatches
\* createReply to handleCreateReply and then closes the form
SubmitReply(f, typed, r) ==
    LET content == replyContent(Mention(f.replyingTo) \o typed, f.replyingTo)
        created == /\ validateComment(content)
                   /\ findComment(data.comments, f.parentId) # <<>>
                   /\ ~IsNull(currentUser)
        id == generateId(now, r)
    IN  /\ Step
        /\ f \in replyForms
        /\ IF created
           THEN /\ data' = [data EXCEPT !.comments =
                               handleCreateReply(@, f.parentId, f.replyingTo, content,
                                                 id, now, currentUser)]
                /\ renderComments
                /\ stored' = saveData(stored, data', storageOK)
                /\ generated' = generated \cup {id}
                /\ event' = [op |-> "reply", created |-> TRUE, id |-> id,
                             parentId |-> f.parentId, replyingTo |-> f.replyingTo,
                             fresh |-> id \notin generated \cup AllIds(data.comments),
                             pre |-> data]
           ELSE /\ replyForms' = IF validateComment(content) THEN replyForms \ {f}
                                 ELSE replyForms
                /\ UNCHANGED <<data, editForms, page, stored, generated>>
                /\ event' = [op |-> "reply", created |-> FALSE,
                             parentId |-> f.parentId, pre |-> data]
        /\ UNCHANGED <<currentUser, deleteTargetId, storageOK, now, phase,
                   requested>>

\* Cancel or Escape in a reply form: Components.cancelReply
CancelReply(f) ==
    /\ Step
    /\ f \in replyForms
    /\ replyForms' = replyForms \ {f}
    /\ event' = [op |-> "cancelReply", id |-> f.parentId]
    /\ UNCHANGED <<data, currentUser, stored, deleteTargetId, editForms,
                   page, storageOK, now, phase, generated, requested>>

\* the edit forms commentElement.querySelector('.edit-form') can find inside
\* the element of c: its own, and for a top-level comment those of its replies
EditFormsInside(c) ==
    {f \in editForms :
        \/ f = c.id
        \/ c.top /\ \E d \in Displayed : d.owner = c.id /\ d.id = f}

\* click on Edit: Components.showEditForm. A form found inside the element
\* is removed (the own one comes first in the document) and the content of c
\* is shown; otherwise a form is inserted and the content of c is hidden
ClickEdit(c) ==
    /\ Step
    /\ isCurrentUser(c)
    /\ IF EditFormsInside(c) # {}
       THEN /\ \E f \in EditFormsInside(c) :
                  /\ c.id \in EditFormsInside(c) => f = c.id
                  /\ editForms' = editForms \ {f}
                  /\ closing' = closing \ {f}
            /\ hidden' = hidden \ {c.id}
       ELSE /\ editForms' = editForms \cup {c.id}
            /\ hidden' = hidden \cup {c.id}
            /\ closing' = closing
    /\ event' = [op |-> "showEditForm", id |-> c.id]
    /\ UNCHANGED <<data, currentUser, stored, deleteTargetId, replyForms,
                   rendered, shown, storageOK, now, phase, generated, requested>>

\* components.js createEditForm, line 182: the form element itself carries
\* the data-comment-id attribute
EditFormHasCommentId == TRUE

\* components.js cancelEdit, lines 505-506: closest('[data-comment-id]')
\* starts at the form, so it is the article only when the form does not
\* match the selector; the form holds no .comment__content element
cancelEditFindsContent == ~EditFormHasCommentId

\* components.js cancelEdit, lines 508-516: the form fades out and a 300 ms
\* timer is started
cancelEdit(commentId) == closing' = closing \cup {commentId}

\* submit of an edit form: Components.handleEditSubmit, which dispatches
\* updateComment to handleUpdateComment and then closes the form
SubmitEdit(commentId, text) ==
    LET content == Trim(text)
        valid == validateComment(content)
        found == findComment(data.comments, commentId) # <<>>
    IN  /\ Step
        /\ commentId \in editForms
        /\ IF valid
           THEN /\ data' = [data EXCEPT !.comments =
                               handleUpdateComment(@, commentId, content)]
                /\ stored' = IF found THEN saveData(stored, data', storageOK)
                             ELSE stored
                /\ cancelEdit(commentId)
           ELSE UNCHANGED <<data, stored, closing>>
        /\ event' = [op |-> "update", id |-> commentId, found |-> valid /\ found,
                     content |-> content, pre |-> data, valid |-> valid]
        /\ UNCHANGED <<currentUser, deleteTargetId, forms, rendered, shown,
                       hidden, storageOK, now, phase, generated, requested>>

\* Cancel or Escape in an edit form: Components.cancelEdit
CancelEdit(commentId) ==
    /\ Step
    /\ commentId \in editForms
    /\ cancelEdit(commentId)
    /\ event' = [op |-> "cancelEdit", id |-> commentId]
    /\ UNCHANGED <<data, currentUser, stored, deleteTargetId, forms, rendered,
                   shown, hidden, storageOK, now, phase, generated, requested>>

\* the 300 ms timer of cancelEdit fires: the form is removed, and the content
\* is shown again if cancelEdit found its element
EditCloseTimer(commentId) ==
    /\ Step
    /\ commentId \in closing
    /\ closing' = closing \ {commentId}
    /\ editForms' = editForms \ {commentId}
    /\ hidden' = IF cancelEditFindsContent THEN hidden \ {commentId} ELSE hidden
    /\ event' = [op |-> "editClosed", id |-> commentId]
    /\ UNCHANGED <<data, currentUser, stored, deleteTargetId, replyForms,
                   rendered, shown, storageOK, now, phase, generated, requested>>

\* click on Delete: Components.showDeleteModal
ClickDelete(c) == isCurrentUser(c) /\ ShowDeleteModal(c.id)

\* what a user can do through the page
NextUI ==
    \/ \E text \in AddTexts, r \in RandomChoices : AddComment(text, r)
    \/ \E c \in Displayed, action \in Votes : ClickVote(c, action)
    \/ \E c \in Displayed : ClickReply(c)
    \/ \E f \in replyForms, typed \in ReplyTexts, r \in RandomChoices :
          SubmitReply(f, typed, r)
    \/ \E f \in replyForms : CancelReply(f)
    \/ \E c \in Displayed : ClickEdit(c)
    \/ \E id \in editForms, text \in EditTexts : SubmitEdit(id, text)
    \/ \E id \in editForms : CancelEdit(id)
    \/ \E id \in closing : EditCloseTimer(id)
    \/ \E c \in Displayed : ClickDelete(c)
    \/ \E how \in Dismissals : HideDeleteModal(how)
    \/ DeleteConfirm
    \/ QuotaChange
    \/ Tick

SpecUI == Init /\ [][NextUI]_vars

----------------------------------------------------------------------------
(* Opening and leaving the page *)

\* a stored snapshot of valid shape whose comments were all deleted
EmptyDoc == [currentUser |-> User("juliusomo"), comments |-> <<>>]

\* a seed document as data.json ships it, with relative-time phrases
SeedDoc ==
    [currentUser |-> User("juliusomo"),
     comments |-> <<
        [id |-> 1, content |-> <<"I", "m", "p">>, createdAt |-> Relative(1, "month"),
         score |-> 12, user |-> User("amyrobson"), replies |-> <<>>],
        [id |-> 2, content |-> <<"W", "o", "a", "h">>, createdAt |-> Relative(2, "week"),
         score |-> 5, user |-> User("maxblagun"),
         replies |-> <<
            [id |-> 3, content |-> <<"I", "f">>, createdAt |-> Relative(1, "week"),
             score |-> 4, replyingTo |-> "maxblagun", user |-> User("ramsesmiron")]
         >>]
     >>]

\* a seed document with younger comments: "2 days ago", "3 hours ago" and
\* a reply "5 minutes ago"
RecentDoc ==
    [currentUser |-> User("juliusomo"),
     comments |-> <<
        [id |-> 1, content |-> <<"I", "m", "p">>, createdAt |-> Relative(2, "day"),
         score |-> 2, user |-> User("amyrobson"), replies |-> <<>>],
        [id |-> 2, content |-> <<"W", "o", "a", "h">>, createdAt |-> Relative(3, "hour"),
         score |-> 1, user |-> User("maxblagun"),
         replies |-> <<
            [id |-> 3, content |-> <<"I", "f">>, createdAt |-> Relative(5, "minute"),
             score |-> 0, replyingTo |-> "maxblagun", user |-> User("ramsesmiron")]
         >>]
     >>]

\* a snapshot an earlier session saved in which the later comment has the
\* higher score
UnsortedDoc ==
    [currentUser |-> User("juliusomo"),
     comments |-> <<
        [id |-> 5, content |-> <<"o", "n", "e">>, createdAt |-> ISODate(StartTime, 2),
         score |-> 1, user |-> User("amyrobson"),
         replies |-> <<
            [id |-> 6, content |-> <<"y", "e", "s">>, createdAt |-> ISODate(StartTime, 1),
             score |-> 0, replyingTo |-> "amyrobson", user |-> User("maxblagun")]
         >>],
        [id |-> 8, content |-> <<"t", "w", "o">>, createdAt |-> ISODate(StartTime, 1),
         score |-> 3, user |-> User("maxblagun"), replies |-> <<>>]
     >>]

\* what localStorage may hold when the page is opened
BlobChoices ==
    {NoItem, Garbage, Stringify(NoUserDoc), Stringify(NoCommentsDoc),
     Stringify(EmptyDoc), Stringify(OtherDoc)}

\* how the fetch of data.json may end
SeedChoices ==
    {FetchFailed, NotOk, Unparsable, SeedJson(Null), SeedJson(NoCommentsDoc),
     SeedJson(NoUserDoc), SeedJson(SeedDoc), SeedJson(RecentDoc)}

\* the constructor has run and init() is about to call loadData
InitLoad ==
    /\ now = StartTime
    /\ storageOK \in BOOLEAN
    /\ stored \in BlobChoices
    /\ data = Null
    /\ currentUser = Null
    /\ deleteTargetId = NullId
    /\ replyForms = {}
    /\ editForms = {}
    /\ rendered = <<>>
    /\ shown = <<>>
    /\ hidden = {}
    /\ closing = {}
    /\ requested = NullId
    /\ phase = "loading"
    /\ generated = {}
    /\ steps = 0
    /\ event = [op |-> "init"]

\* CommentsApp.init: loadData, then renderComments
LoadData(seed) ==
    LET l == loadData(stored, seed, now, storageOK) IN
    /\ phase = "loading"
    /\ phase' = "ready"
    /\ data' = l.data
    /\ stored' = l.stored
    /\ currentUser' = CurrentUserOf(l.data)
    /\ event' = [op |-> "load", blob |-> stored, seed |-> seed, at |-> now]
    /\ rendered' = sortedComments(l.data.comments)
    /\ shown' = renderScores(l.data.comments)
    /\ UNCHANGED <<deleteTargetId, forms, hidden, closing, storageOK, now,
                   generated, steps, requested>>

\* the page is left and opened again: the beforeunload listener saves, and
\* the new page constructs a new CommentsApp
Reload ==
    /\ Step
    /\ stored' = saveData(stored, data, storageOK)
    /\ phase' = "loading"
    /\ data' = Null
    /\ currentUser' = Null
    /\ deleteTargetId' = NullId
    /\ ClearForms
    /\ rendered' = <<>>
    /\ shown' = <<>>
    /\ requested' = NullId
    /\ event' = [op |-> "unload", saved |-> saveDataResult(data, storageOK),
                 pre |-> data, preUser |-> currentUser, preStored |-> stored]
    /\ UNCHANGED <<storageOK, now, generated>>

NextLoad ==
    \/ \E seed \in SeedChoices : LoadData(seed)
    \/ Reload
    \/ \E text \in AddTexts, r \in RandomChoices : AddComment(text, r)
    \/ \E id \in EventIds, action \in Votes : CommentVote(id, action)
    \/ \E id \in EventIds : ShowDeleteModal(id)
    \/ DeleteConfirm
    \/ AutoSave
    \/ QuotaChange

SpecLoad == InitLoad /\ [][NextLoad]_vars

----------------------------------------------------------------------------
(* A session that opens on a stored snapshot whose order is not that of the
   scores *)

InitOrder ==
    /\ now = StartTime
    /\ storageOK \in BOOLEAN
    /\ stored = Stringify(UnsortedDoc)
    /\ data = Null
    /\ currentUser = Null
    /\ deleteTargetId = NullId
    /\ replyForms = {}
    /\ editForms = {}
    /\ rendered = <<>>
    /\ shown = <<>>
    /\ hidden = {}
    /\ closing = {}
    /\ requested = NullId
    /\ phase = "loading"
    /\ generated = {}
    /\ steps = 0
    /\ event = [op |-> "init"]

NextOrder ==
    \/ LoadData(FetchFailed)
    \/ \E text \in AddTexts, r \in RandomChoices : AddComment(text, r)
    \/ \E id \in EventIds, action \in Votes : CommentVote(id, action)
    \/ \E id \in EventIds, r \in RandomChoices :
          CreateReply(id, "amyrobson", ReplyContent, r)
    \/ \E id \in EventIds : ShowDeleteModal(id)
    \/ DeleteConfirm

SpecOrder == InitOrder /\ [][NextOrder]_vars

----------------------------------------------------------------------------
(* Storage.validateData on its three paths, for candidate snapshots of every
   shape: getData (load), saveData (save) and importData (import) *)

\* the user objects and comment fields a candidate snapshot may have
CandidateUsers == {Null, [image |-> "png"], User(""), User("juliusomo"), User("maxblagun")}
CandidateComments == { <<>>, OtherDoc.comments }

Candidates ==
    {Null}
    \cup {[comments |-> c] : c \in CandidateComments}
    \cup {[currentUser |-> u] : u \in CandidateUsers}
    \cup {[currentUser |-> u, comments |-> c] :
             u \in CandidateUsers, c \in CandidateComments}

InitValidate ==
    /\ now = StartTime
    /\ storageOK = TRUE
    /\ stored = NoItem
    /\ data = Null
    /\ currentUser = Null
    /\ deleteTargetId = NullId
    /\ replyForms = {}
    /\ editForms = {}
    /\ rendered = <<>>
    /\ shown = <<>>
    /\ hidden = {}
    /\ closing = {}
    /\ requested = NullId
    /\ phase = "storage"
    /\ generated = {}
    /\ steps = 0
    /\ event = [op |-> "init"]

\* Storage.getData() with the candidate as the stored item: it is returned
\* when validateData accepts it, the default snapshot otherwise
ValidateOnLoad(doc) ==
    /\ steps < MaxSteps
    /\ steps' = steps + 1
    /\ stored' = Stringify(doc)
    /\ event' = [op |-> "validate", path |-> "load", doc |-> doc,
                 accepted |-> (getData(stored', now) # getInitialData(now))]
    /\ UNCHANGED <<data, currentUser, deleteTargetId, forms, page, storageOK,
                   now, phase, generated, requested>>

\* Storage.saveData(candidate), setItem succeeding
ValidateOnSave(doc) ==
    /\ steps < MaxSteps
    /\ steps' = steps + 1
    /\ stored' = saveData(stored, doc, storageOK)
    /\ event' = [op |-> "validate", path |-> "save", doc |-> doc,
                 accepted |-> saveDataResult(doc, storageOK)]
    /\ UNCHANGED <<data, currentUser, deleteTargetId, forms, page, storageOK,
                   now, phase, generated, requested>>

\* Storage.importData(JSON text of the candidate)
ValidateOnImport(doc) ==
    /\ steps < MaxSteps
    /\ steps' = steps + 1
    /\ stored' = importData(stored, Stringify(doc), storageOK)
    /\ event' = [op |-> "validate", path |-> "import", doc |-> doc,
                 accepted |-> importDataResult(Stringify(doc))]
    /\ UNCHANGED <<data, currentUser, deleteTargetId, forms, page, storageOK,
                   now, phase, generated, requested>>

NextValidate ==
    \/ \E doc \in Candidates : ValidateOnLoad(doc)
    \/ \E doc \in Candidates : ValidateOnSave(doc)
    \/ \E doc \in Candidates : ValidateOnImport(doc)

SpecValidate == InitValidate /\ [][NextValidate]_vars

----------------------------------------------------------------------------
(* Claims *)

\* every score of the tree, at any depth
RECURSIVE AllScores(_)
AllScores(comments) ==
    UNION {{comments[i].score} \cup AllScores(RepliesOf(comments[i])) :
              i \in 1..Len(comments)}

\* the score of the comment findComment returns for id
ScoreOf(comments, id) == CommentAt(comments, findComment(comments, id)).score

\* the last handler run was a vote that found its comment
Voted(action) == event.op = "vote" /\ event.action = action /\ event.found

\* C1: in every state reached from the default snapshot, the score of every
\* top-level comment and of every reply is an integer >= 0
C1_ScoreNeverNegative == \A s \in AllScores(data.comments) : s \in Nat

\* C1 witness: a downvote has brought a comment to score 0
C1_Witness == Voted("downvote") /\ ScoreOf(data.comments, event.id) = 0

\* C2: no reply ever owns a reply list with elements in it
C2_TwoLevels ==
    \A i \in 1..Len(data.comments) :
        \A j \in 1..Len(RepliesOf(data.comments[i])) :
            RepliesOf(RepliesOf(data.comments[i])[j]) = <<>>

\* C3: every id produced for a new comment or reply differs from every id
\* already in the tree and from every id generated earlier
C3_GeneratedIdsFresh ==
    (event.op \in {"add", "reply"} /\ event.created) => event.fresh

\* C4: a vote on a present comment of score s sets it to s + 1 when Up, and
\* when Down to s - 1 if s > 0 and to 0 if s = 0
C4_VoteSetsScore ==
    (event.op = "vote" /\ event.found) =>
        LET s == ScoreOf(event.pre.comments, event.id)
            after == ScoreOf(data.comments, event.id)
        IN  /\ event.action = "upvote" => after = s + 1
            /\ (event.action = "downvote" /\ s > 0) => after = s - 1
            /\ (event.action = "downvote" /\ s = 0) => after = 0

\* C4 witness: a downvote has acted on a comment whose score was 0
C4_Witness ==
    /\ Voted("downvote")
    /\ ScoreOf(event.pre.comments, event.id) = 0
    /\ ScoreOf(data.comments, event.id) = 0

\* the last two handler runs were an Up and then a Down on one present id
UpThenDown ==
    /\ Voted("downvote")
    /\ event.prior.op = "vote"
    /\ event.prior.action = "upvote"
    /\ event.prior.found
    /\ event.prior.id = event.id

\* C5: Up immediately followed by Down on the same present id restores the
\* score, and leaves the whole tree as it was before the two votes
C5_UpThenDownRestores ==
    UpThenDown =>
        /\ ScoreOf(data.comments, event.id) = ScoreOf(event.prior.pre.comments, event.id)
        /\ data.comments = event.prior.pre.comments

\* C5 witness: Up then Down has acted on a comment whose score was 0
C5_Witness == UpThenDown /\ ScoreOf(event.prior.pre.comments, event.id) = 0

\* the ids of the tree in document order, at any depth
RECURSIVE FlatIds(_)
FlatIds(comments) ==
    IF comments = <<>> THEN <<>>
    ELSE <<Head(comments).id>> \o FlatIds(RepliesOf(Head(comments)))
         \o FlatIds(Tail(comments))

\* the last handler run was a confirm click that removed its target
Deleted == event.op = "delete" /\ event.removed

\* C6: deleting a present id removes exactly one comment or reply: a reply
\* takes exactly 1 off the size of the tree and the others keep their order;
\* a top-level comment takes 1 plus the size of its reply subtree, and none
\* of those replies is findable afterwards
C6_DeleteRemovesOne ==
    Deleted =>
        LET pre == event.pre.comments
            post == data.comments
            tops == {i \in 1..Len(pre) : pre[i].id = event.id}
        IN  IF tops # {}
            THEN LET c == pre[Min(tops)] IN
                 /\ DeepSize(post) = DeepSize(pre) - 1 - DeepSize(RepliesOf(c))
                 /\ \A id \in AllIds(RepliesOf(c)) : findComment(post, id) = <<>>
            ELSE /\ DeepSize(post) = DeepSize(pre) - 1
                 /\ \E k \in 1..Len(FlatIds(pre)) :
                       /\ FlatIds(pre)[k] = event.id
                       /\ FlatIds(post) = RemoveAt(FlatIds(pre), k)

\* the last handler run was a vote, edit, reply or confirmed delete that
\* named an id the tree did not hold
NamedAbsentId ==
    \/ /\ event.op \in {"vote", "update", "delete"}
       /\ event.id \notin AllIds(event.pre.comments)
    \/ /\ event.op = "reply"
       /\ event.parentId \notin AllIds(event.pre.comments)

\* C7: an operation that names an id absent from the tree leaves the whole
\* tree unchanged
C7_AbsentIdLeavesTree ==
    NamedAbsentId =>
        /\ data = event.pre
        /\ DeepSize(data.comments) = DeepSize(event.pre.comments)

\* C7 witness: a confirm click has run for a target the tree does not hold
C7_Witness ==
    event.op = "delete" /\ event.id = AbsentId /\ AbsentId \notin AllIds(data.comments)

\* ids, content, scores and order of a tree, for comments and replies
RECURSIVE Shape(_)
Shape(comments) ==
    [i \in 1..Len(comments) |->
        [id |-> comments[i].id, content |-> comments[i].content,
         score |-> comments[i].score, replies |-> Shape(RepliesOf(comments[i]))]]

\* C8: importing the export that was just taken yields a tree equal (ids,
\* content, scores, order) to the in-memory tree before the export
C8_RoundTrip ==
    (event.op = "import" /\ event.roundTrip) =>
        Shape(data.comments) = Shape(event.pre.comments)

\* C9: importing a snapshot of invalid shape leaves the in-memory tree, the
\* current user and the stored item unchanged, and every comment that could
\* be found before can still be found
C9_InvalidImportRejected ==
    (event.op = "import" /\ event.file \in InvalidFiles) =>
        /\ data = event.pre
        /\ currentUser = event.preUser
        /\ stored = event.preStored
        /\ \A id \in AllIds(event.pre.comments) :
              findComment(event.pre.comments, id) # <<>>
                 => findComment(data.comments, id) # <<>>

\* C9 witness: a file whose user has no username was imported, and seeded
\* comment 1 is still found
C9_Witness ==
    /\ event.op = "import"
    /\ event.file = Stringify(NoUsernameDoc)
    /\ findComment(data.comments, 1) # <<>>

\* the validation rule: a user with a non-empty username, comments a sequence
UsableSnapshot(d) ==
    /\ ~IsNull(d)
    /\ "currentUser" \in DOMAIN d
    /\ "username" \in DOMAIN d.currentUser
    /\ d.currentUser.username # ""
    /\ "comments" \in DOMAIN d

\* C10: after loadData the in-memory state satisfies the validation rule
\* and currentUser is set, whatever the stored item and the seed fetch were
C10_LoadYieldsUsable ==
    event.op = "load" =>
        /\ phase = "ready"
        /\ UsableSnapshot(data)
        /\ ~IsNull(currentUser)

\* the stored item parses to a snapshot of valid shape
BlobValid(s) == s.text = "json" /\ UsableSnapshot(s.value)

\* the fetch of the seed document succeeded and gave a snapshot of valid shape
SeedFetched(seed) == seed.kind = "json" /\ UsableSnapshot(seed.value)

\* the fetch of the seed document failed: network error, HTTP error status,
\* or a body that is not JSON
SeedFailed(seed) == seed.kind # "json"

\* C11: when the stored item is absent or of invalid shape, load uses the
\* seed document if its fetch succeeds, and the hardcoded default snapshot
\* only if that fetch fails
C11_ThreeTierLoad ==
    (event.op = "load" /\ ~BlobValid(event.blob)) =>
        /\ SeedFetched(event.seed) =>
              /\ data.comments = processComments(event.seed.value.comments, event.at)
              /\ currentUser = event.seed.value.currentUser
        /\ SeedFailed(event.seed) => data = getInitialData(event.at)

\* C12: whenever the stored item is of valid shape, load yields exactly the
\* stored snapshot, also when its comments sequence is empty
C12_StoredSnapshotLoaded ==
    (event.op = "load" /\ BlobValid(event.blob)) =>
        /\ data = event.blob.value
        /\ currentUser = event.blob.value.currentUser

\* the last handler run was a save that failed: setItem threw, or the
\* in-memory snapshot did not pass validateData
SaveFailed == event.op = "autosave" /\ ~event.saved

\* C13: a save that fails returns failure and leaves the in-memory tree, the
\* current user and the stored item as they were; an add whose own save
\* failed still has its comment in memory, and a vote that follows a failed
\* save acts on the tree that save left
C13_FailedSaveLeavesMemory ==
    /\ SaveFailed =>
          /\ data = event.pre
          /\ currentUser = event.preUser
          /\ stored = event.preStored
    /\ (event.op = "add" /\ event.created /\ ~event.saved) =>
          /\ Len(data.comments) = Len(event.pre.comments) + 1
          /\ currentUser = event.preUser
    /\ (event.op = "vote" /\ event.found /\ event.prior.op = "autosave"
            /\ ~event.prior.saved) =>
          /\ event.pre = event.prior.pre
          /\ ScoreOf(data.comments, event.id) =
                IF event.action = "upvote"
                THEN ScoreOf(event.pre.comments, event.id) + 1
                ELSE Max(0, ScoreOf(event.pre.comments, event.id) - 1)

\* C13 witness: a vote has changed a score right after a save that failed
C13_Witness ==
    /\ event.op = "vote"
    /\ event.found
    /\ event.prior.op = "autosave"
    /\ ~event.prior.saved
    /\ data # event.pre

C15_AddAppendsOne ==
    (event.op = "add" /\ event.created) =>
        LET pre == event.pre.comments
            post == data.comments
            new == post[Len(post)]
        IN  /\ Len(post) = Len(pre) + 1
            /\ SubSeq(post, 1, Len(pre)) = pre
            /\ DeepSize(post) = DeepSize(pre) + 1
            /\ new.score = 0
            /\ new.replies = <<>>
            /\ new.user.username = event.preUser.username
            /\ new.content = Trim(event.text)
            /\ new.id = event.id

\* C15 witness: a comment typed with spaces around it was added after the
\* two seeded comments
C15_Witness ==
    /\ event.op = "add"
    /\ event.created
    /\ event.text = <<" ", "n", "e", "w", " ">>
    /\ Len(event.pre.comments) >= 2
    /\ data.comments[Len(data.comments)].content = <<"n", "e", "w">>

\* the position of the top-level comment that is, or that holds as a reply,
\* the comment findComment returns for id
TopLevelOf(comments, id) == findComment(comments, id)[1]

\* C16: a submitted reply, whether its target is a top-level comment or a
\* reply, is appended as one new reply with score 0 to the end of the reply
\* sequence of the top-level parent, with replyingTo the username of the
\* target; the earlier replies keep their order and nothing else changes
C16_ReplyGoesToTopLevel ==
    (event.op = "reply" /\ event.created) =>
        LET pre == event.pre.comments
            post == data.comments
            i == TopLevelOf(pre, event.parentId)
            target == CommentAt(pre, findComment(pre, event.parentId))
            replies == RepliesOf(post[i])
        IN  /\ Len(post) = Len(pre)
            /\ Len(replies) = Len(RepliesOf(pre[i])) + 1
            /\ SubSeq(replies, 1, Len(replies) - 1) = RepliesOf(pre[i])
            /\ replies[Len(replies)].id = event.id
            /\ replies[Len(replies)].score = 0
            /\ replies[Len(replies)].replyingTo = target.user.username
            /\ \A k \in 1..Len(pre) : k # i => post[k] = pre[k]

\* C17: an edit of a present comment or reply replaces only its content: its
\* id, createdAt, score, author, replyingTo and replies are unchanged, it
\* stays where it was, and every other comment and reply is unchanged
C17_EditReplacesOnlyContent ==
    (event.op = "update" /\ event.found) =>
        LET pre == event.pre.comments
            post == data.comments
            p == findComment(pre, event.id)
            before == CommentAt(pre, p)
            after == CommentAt(post, p)
        IN  /\ after.content = event.content
            /\ after.id = before.id
            /\ after.createdAt = before.createdAt
            /\ after.score = before.score
            /\ after.user = before.user
            /\ DOMAIN after = DOMAIN before
            /\ "replyingTo" \in DOMAIN before => after.replyingTo = before.replyingTo
            /\ RepliesOf(after) = RepliesOf(before)
            /\ FlatIds(post) = FlatIds(pre)
            /\ post = SetCommentAt(pre, p, after)

\* C17 witness: the content of seeded reply 4, which has a replyingTo, was
\* replaced by an edit
C17_Witness ==
    /\ event.op = "update"
    /\ event.found
    /\ event.id = 4
    /\ CommentAt(data.comments, findComment(data.comments, 4)).content = EditContent
    /\ data # event.pre

\* C18: a comment or reply leaves the tree only by a confirm click that
\* follows a delete request for that id with no cancel in between; add,
\* vote, edit, reply and the cancel itself remove nothing; and a confirm
\* click after a cancel (button, overlay or Escape) leaves the tree unchanged
C18_DeleteNeedsConfirmation ==
    /\ Deleted =>
          /\ requested # NullId
          /\ event.id = requested
          /\ event.prior.op # "hideDeleteModal"
    /\ event.op \in {"add", "vote", "update", "reply", "hideDeleteModal"} =>
          /\ AllIds(event.pre.comments) \subseteq AllIds(data.comments)
          /\ DeepSize(data.comments) >= DeepSize(event.pre.comments)
    /\ event.op = "hideDeleteModal" =>
          data = event.pre /\ deleteTargetId = NullId
    /\ (event.op = "delete" /\ (requested = NullId \/ event.prior.op = "hideDeleteModal")) =>
          ~event.removed /\ data = event.pre

\* C18 witness: a delete request for a comment of the tree was cancelled
\* with Escape, the confirm button was clicked next, and the comment is
\* still there
C18_Witness ==
    /\ event.op = "delete"
    /\ event.prior.op = "hideDeleteModal"
    /\ event.prior.how = "escapeKey"
    /\ event.prior.cancelled \in AllIds(data.comments)
    /\ ~event.removed

\* the username of the author of the comment findComment returns for id
AuthorOf(comments, id) == CommentAt(comments, findComment(comments, id)).user.username

\* C19: only comments and replies of the current user are edited or deleted,
\* and only those of someone else are replied to: the comment an edit
\* changed, and the comment a confirmed delete removed, is the current
\* user's own, and the target of a created reply is not
C19_OnlyOwnEditedOrDeleted ==
    /\ (event.op = "update" /\ event.found) =>
          AuthorOf(event.pre.comments, event.id) = currentUser.username
    /\ Deleted => AuthorOf(event.pre.comments, event.id) = currentUser.username
    /\ (event.op = "reply" /\ event.created) =>
          AuthorOf(event.pre.comments, event.parentId) # currentUser.username

\* the last handler run was an add, reply, edit, vote or delete that changed
\* the tree
Mutated ==
    \/ event.op \in {"add", "reply"} /\ event.created
    \/ event.op \in {"update", "vote"} /\ event.found
    \/ Deleted

\* C20: after every add, reply, edit, vote or delete the displayed sequence
\* of top-level comments holds each top-level comment once and is in
\* descending order of current score
C20_ViewSortedByScore ==
    Mutated =>
        /\ Len(rendered) = Len(data.comments)
        /\ \A k \in 1..Len(data.comments) : \E i \in 1..Len(rendered) : rendered[i] = k
        /\ \A i, j \in 1..Len(rendered) :
              i < j => data.comments[rendered[i]].score >= data.comments[rendered[j]].score


----------------------------------------------------------------------------
(* The order of the stored tree *)

\* the ids of a sequence of comments, in its order
IdsOf(seq) == [k \in 1..Len(seq) |-> seq[k].id]

\* the order of a tree: its top-level ids, each with the ids of its replies
OrderOf(comments) ==
    [i \in 1..Len(comments) |->
        [id |-> comments[i].id, replies |-> IdsOf(RepliesOf(comments[i]))]]

\* new is old with elements appended at its end, or with one element removed
InOrder(old, new) ==
    \/ Len(new) >= Len(old) /\ SubSeq(new, 1, Len(old)) = old
    \/ \E k \in 1..Len(old) :
          new = SubSeq(old, 1, k - 1) \o SubSeq(old, k + 1, Len(old))

\* the tree keeps the order of the tree it came from: position by position
\* it has the same comments, each with its replies in the order they had,
\* and new comments follow at the end; or one top-level comment is gone and
\* the others are as they were
OrderKept(old, new) ==
    \/ /\ Len(new) >= Len(old)
       /\ \A h \in 1..Len(old) :
             /\ new[h].id = old[h].id
             /\ InOrder(IdsOf(RepliesOf(old[h])), IdsOf(RepliesOf(new[h])))
       /\ \A h \in (Len(old) + 1)..Len(new) : RepliesOf(new[h]) = <<>>
    \/ \E k \in 1..Len(old) : OrderOf(new) = OrderOf(RemoveAt(old, k))

\* the handler of the last event wrote the blob
Wrote ==
    /\ storageOK
    /\ \/ event.op \in {"add", "reply"} /\ event.created
       \/ event.op \in {"vote", "update"} /\ event.found
       \/ event.op = "delete" /\ event.removed

\* the last event rendered the list
Rendered ==
    \/ event.op \in {"add", "reply"} /\ event.created
    \/ event.op = "delete" /\ event.removed
    \/ event.op = "load"

\* the articles of replies follow each other in the order of the stored
\* replies of their parent
RepliesShownInOrder ==
    LET paths == articlePaths(data.comments, rendered) IN
    \A k, l \in 1..Len(paths) :
        (k < l /\ Len(paths[k]) = 2 /\ Len(paths[l]) = 2
            /\ paths[k][1] = paths[l][1]) => paths[k][2] < paths[l][2]

\* C21: rendering never reorders the stored state. A handler leaves the
\* comments of the tree, top-level and under each parent, in the order they
\* had, with a new one at the end; a snapshot loaded from the blob keeps the
\* blob's order; the blob a handler writes has the order of the tree, whatever
\* the scores are; and the replies of a comment are displayed in their stored
\* order.
C21_RenderKeepsStoredOrder ==
    phase = "ready" =>
        /\ "pre" \in DOMAIN event /\ ~IsNull(event.pre)
              => OrderKept(event.pre.comments, data.comments)
        /\ (event.op = "load" /\ BlobValid(event.blob)
                /\ Parse(event.blob).comments # <<>>)
              => OrderOf(data.comments) = OrderOf(Parse(event.blob).comments)
        /\ Wrote => /\ CanParse(stored)
                    /\ OrderOf(Parse(stored).comments) = OrderOf(data.comments)
        /\ Rendered => RepliesShownInOrder

\* a reply was added under a comment that had one, the list was rendered in
\* an order that is not the stored one, and the blob was written
C21_Witness ==
    /\ phase = "ready"
    /\ event.op = "reply" /\ event.created
    /\ \E i \in 1..Len(data.comments) : Len(RepliesOf(data.comments[i])) >= 2
    /\ rendered # [i \in 1..Len(data.comments) |-> i]
    /\ Wrote /\ stored = Stringify(data)


----------------------------------------------------------------------------
(* Saving after a mutation *)

\* C22: every mutation is followed by a save of the whole state. When an
\* add, reply, edit, vote or delete handler has changed the tree and the blob
\* store accepts writes, the persisted blob deserializes to the snapshot in
\* memory, user and comments.
C22_MutationSavesWholeState ==
    Wrote => /\ CanParse(stored)
             /\ Parse(stored) = data
             /\ Parse(stored).currentUser = currentUser

\* a vote and then an edit changed the tree, and the blob written by the
\* edit holds both changes
C22_Witness ==
    /\ event.op = "update" /\ Wrote
    /\ event.pre # data
    /\ stored = Stringify(data)
    /\ \E i \in 1..Len(data.comments) : data.comments[i].score = 13


----------------------------------------------------------------------------
(* Relative times of the seed document *)

\* the minutes in one unit of a relative-time phrase
UnitMinutes(unit) ==
    CASE unit = "minute" -> 1
      [] unit = "hour" -> 60
      [] unit = "day" -> 1440
      [] unit = "week" -> 7 * 1440
      [] unit = "month" -> 30 * 1440

\* the loaded comments are those of the seed with every phrase "N unit ago",
\* on every level, replaced by the instant N units before t
RECURSIVE PhrasesConverted(_, _, _)
PhrasesConverted(seeded, loaded, t) ==
    /\ Len(loaded) = Len(seeded)
    /\ \A i \in 1..Len(seeded) :
          /\ loaded[i].id = seeded[i].id
          /\ "unit" \notin DOMAIN loaded[i].createdAt
          /\ "unit" \in DOMAIN seeded[i].createdAt =>
                loaded[i].createdAt =
                    ISODate(t, seeded[i].createdAt.n * UnitMinutes(seeded[i].createdAt.unit))
          /\ PhrasesConverted(RepliesOf(seeded[i]), RepliesOf(loaded[i]), t)

\* the last event is a load that took the seed document
SeedTaken ==
    /\ event.op = "load"
    /\ BlobValid(event.blob) /\ Parse(event.blob).comments = <<>>
    /\ event.seed.kind = "json"
    /\ ~IsNull(event.seed.value)
    /\ "comments" \in DOMAIN event.seed.value

\* C23: when the seed document is loaded, the createdAt of every comment and
\* of every nested reply that is a phrase "N unit ago" becomes the instant N
\* units before now (minute, hour, day, week of 7 days, month of 30 days), and
\* no phrase remains in the loaded tree.
C23_SeedTimesConverted ==
    SeedTaken => PhrasesConverted(event.seed.value.comments, data.comments, event.at)

\* seed documents with phrases of all five units were loaded, replies
\* included
C23_Witness ==
    /\ SeedTaken
    /\ \/ /\ event.seed.value = SeedDoc
          /\ data.comments[1].createdAt = ISODate(StartTime, 43200)
          /\ data.comments[2].replies[1].createdAt = ISODate(StartTime, 10080)
       \/ /\ event.seed.value = RecentDoc
          /\ data.comments[1].createdAt = ISODate(StartTime, 2880)
          /\ data.comments[2].createdAt = ISODate(StartTime, 180)
          /\ data.comments[2].replies[1].createdAt = ISODate(StartTime, 5)


----------------------------------------------------------------------------
(* Fields that never change *)

\* what a comment was created with: id, createdAt, author and, for a reply,
\* replyingTo
Birth(c) ==
    [id |-> c.id, createdAt |-> c.createdAt, user |-> c.user,
     replyingTo |-> IF "replyingTo" \in DOMAIN c THEN c.replyingTo ELSE ""]

\* the birth records of every comment of the tree, at any depth
RECURSIVE Births(_)
Births(comments) ==
    UNION {{Birth(comments[i])} \cup Births(RepliesOf(comments[i])) :
              i \in 1..Len(comments)}

\* the tree is the earlier one except for one field of the comment with the
\* id, which may have any value
OnlyFieldChanged(old, new, id, field) ==
    LET p == findComment(old, id) IN
    /\ p # <<>>
    /\ new = SetCommentAt(old, p,
                [CommentAt(old, p) EXCEPT ![field] = CommentAt(new, p)[field]])

\* C24: under add, reply, edit, vote and delete a comment or reply that
\* exists keeps the id, createdAt, author and replyingTo it was created with;
\* a vote changes only the score of the comment it names and an edit only its
\* content.
C24_BirthFieldsImmutable ==
    ("pre" \in DOMAIN event /\ event.op \in {"add", "reply", "update", "vote", "delete"}) =>
        /\ \A b \in Births(data.comments) :
              \/ b \in Births(event.pre.comments)
              \/ event.op \in {"add", "reply"} /\ event.created /\ b.id = event.id
        /\ event.op = "vote" =>
              IF event.found
              THEN OnlyFieldChanged(event.pre.comments, data.comments, event.id, "score")
              ELSE data = event.pre
        /\ event.op = "update" =>
              IF event.found
              THEN OnlyFieldChanged(event.pre.comments, data.comments, event.id, "content")
              ELSE data = event.pre

\* a reply of the tree was voted on after another operation, and its score
\* is no longer the one it had
C24_Witness ==
    /\ event.op = "vote" /\ event.found
    /\ Len(findComment(event.pre.comments, event.id)) = 2
    /\ data # event.pre
    /\ event.prior.op \in {"add", "reply", "update", "delete"}


----------------------------------------------------------------------------
(* Saves by the timer and at the end of the session *)

----------------------------------------------------------------------------
(* Created comments can be found and seen *)

\* C26: a comment or reply that an add or reply operation reported as
\* created is returned by findComment for its id and is displayed by the
\* render that follows; no reply is stored where lookup and rendering do not
\* reach.
C26_CreatedIsFoundAndShown ==
    (event.op \in {"add", "reply"} /\ event.created) =>
        /\ findComment(data.comments, event.id) # <<>>
        /\ event.id \in {d.id : d \in Displayed}

----------------------------------------------------------------------------
(* Import when the write is rejected *)

\* C27: whenever Storage.importData reports success for a snapshot, the
\* state in memory after CommentsApp.importData is that snapshot, same user
\* and same comments, also when the blob store rejects the write of the
\* import.
C27_ImportedSnapshotInMemory ==
    (event.op = "import" /\ event.accepted) =>
        /\ data = Parse(event.file)
        /\ currentUser = Parse(event.file).currentUser


----------------------------------------------------------------------------
(* The content element around an edit form *)

\* C28: after an edit form is closed, by a valid submit, by Cancel or by
\* Escape, the content element of the comment is visible again once the
\* 300 ms close timer has fired, without a full re-render; the content is
\* hidden only while an edit form for that comment is open.
C28_ContentHiddenOnlyWhileEditing == hidden \subseteq editForms

----------------------------------------------------------------------------
(* The score displays of an article *)

\* C29: after a vote on a displayed comment or reply, every score display of
\* that comment, the desktop voting widget and the mobile footer voting
\* widget, shows the stored score of the comment.
C29_ScoreDisplaysShowStoredScore ==
    (event.op = "vote" /\ event.found) =>
        LET article == firstArticle(data.comments, rendered, event.id) IN
        article # <<>> =>
            /\ shown[article].desktop = ScoreAt(data.comments, event.id)
            /\ shown[article].mobile = ScoreAt(data.comments, event.id)

============================================================================
